---------------------------- MODULE Spec2Model ----------------------------
(***************************************************************************)
(* Model of src/app.py: a resume record is loaded and validated            *)
(* (load_resume), flattened into documents (create_documents), indexed     *)
(* (FAISS.from_documents) and queried (similarity_search, k = 3); the top  *)
(* result is shown by display_results.                                     *)
(*                                                                         *)
(* Python dictionaries are functions with a string domain, so that         *)
(* "key in d" is  key \in DOMAIN d,  d.get(key, default) is Get and a      *)
(* d[key] on a missing key is a KeyError.  Lists are sequences.  A text is *)
(* the sequence of its tokens.  Metadata values are dynamically typed in   *)
(* Python; here each carries its type tag (Str, Lst, Num).                 *)
(***************************************************************************)
EXTENDS Integers, Sequences, FiniteSets, TLC

VARIABLES
    readable,        \* whether resum.json can be opened and parsed
    resum_json,      \* the value json.load yields for resum.json
    resume_data,     \* main's local `resume_data`
    pc,              \* the position of main()
    error,           \* the text of st.error, or the uncaught exception
    documents,       \* main's local `documents`
    vector_store,    \* main's local `vector_store`
    query,           \* main's local `query`
    query_vector,    \* the embedding of `query`
    hits,            \* the (handle, distance) pairs the index search yields
    results,         \* main's local `results`
    primary_result   \* display_results' local `primary_result`

vars == <<readable, resum_json, resume_data, pc, error, documents, vector_store,
          query, query_vector, hits, results, primary_result>>

-----------------------------------------------------------------------------
(* Bounds of the model *)

\* most leaf facts (highlights + skill categories + projects) of a record
\* whose flattening is checked
MaxLeaves == 2

\* most leaf facts of a record that is indexed and queried
MaxIndexed == 3

\* list lengths tried for the company list and for each position list
ListLens == {0, 1, 2}

\* list lengths tried for them in the records that are indexed
ShortLens == {0, 1}

-----------------------------------------------------------------------------
(* Python values *)

Empty == <<>>

Get(d, key, default) == IF key \in DOMAIN d THEN d[key] ELSE default

Str(s) == [kind |-> "str", val |-> s]
Lst(l) == [kind |-> "list", val |-> l]
Num(n) == [kind |-> "num", val |-> n]

Min(a, b) == IF a <= b THEN a ELSE b

RECURSIVE Concat(_)
Concat(ss) == IF Len(ss) = 0 THEN <<>> ELSE Head(ss) \o Concat(Tail(ss))

\* sep.join(items), as tokens
RECURSIVE Join(_, _)
Join(sep, items) ==
    IF Len(items) = 0 THEN <<>>
    ELSE IF Len(items) = 1 THEN <<items[1]>>
    ELSE <<items[1], sep>> \o Join(sep, Tail(items))

-----------------------------------------------------------------------------
(* create_documents *)

\* OverviewDoc with the values of section and type exchanged
OverviewDocTypeSwapped(r) ==
    [page_content |-> <<"Name:", r.basics.name, "Summary:", r.basics.summary>>,
     metadata |-> [section |-> Str("overview"), type |-> Str("summary")]]

OverviewDoc(r) ==
    [page_content |-> <<"Name:", r.basics.name, "Summary:", r.basics.summary>>,
     metadata |-> [section |-> Str("summary"), type |-> Str("overview")]]

\* **highlight.get('metrics', {}) : the metrics' keys with their values
Spread(m) == [k \in DOMAIN m |-> Num(m[k])]

\* The metrics are spread last in the dict display, so on a shared key the
\* metrics' value is the one kept.
ExperienceMetadata(company, position, highlight) ==
    Spread(Get(highlight, "metrics", Empty))
    @@ [type |-> Str("experience"),
        company |-> Str(company.company),
        role |-> Str(position.title),
        technologies |-> Lst(Get(highlight, "technologies", <<>>))]

ExperienceDoc(company, position, highlight) ==
    [page_content |->
        <<position.title, "at", company.company, ":",
          "Achievement:", highlight.achievement, "Technologies:">>
        \o Join(",", Get(highlight, "technologies", <<>>)),
     metadata |-> ExperienceMetadata(company, position, highlight)]

ExperienceDocs(employment) ==
    Concat([c \in 1..Len(employment) |->
        Concat([p \in 1..Len(employment[c].positions) |->
            [h \in 1..Len(employment[c].positions[p].highlights) |->
                ExperienceDoc(employment[c], employment[c].positions[p],
                              employment[c].positions[p].highlights[h])]])])

SkillsDoc(category) ==
    [page_content |->
        <<category.name, "(", category.experience, "experience):",
          "Used in", ToString(category.projects), "projects:">>
        \o Join(",", category.items),
     metadata |-> [type |-> Str("skills"),
                   category |-> Str(category.name),
                   experience |-> Str(category.experience),
                   projects |-> Num(category.projects)]]

SkillsDocs(categories) ==
    [i \in 1..Len(categories) |-> SkillsDoc(categories[i])]

\* "\n- ".join([f"{a['description']} ({a['impact']})" for a in achievements])
AchievementLines(achievements) ==
    Concat([i \in 1..Len(achievements) |->
        (IF i > 1 THEN <<"-">> ELSE <<>>)
        \o <<achievements[i].description, "(", achievements[i].impact, ")">>])

ProjectDoc(project) ==
    [page_content |->
        <<"Project:", project.name, "Role:", project.role, "Technologies:">>
        \o Join(",", Get(project, "technologies", <<>>))
        \o <<"Achievements:", "-">>
        \o AchievementLines(Get(project, "achievements", <<>>)),
     metadata |-> [type |-> Str("project"),
                   technologies |-> Lst(Get(project, "technologies", <<>>)),
                   duration |-> Str(Get(project, "duration", "Unknown"))]]

ProjectDocs(projects) ==
    [i \in 1..Len(projects) |-> ProjectDoc(projects[i])]

\* create_documents with the skills loop placed before the employment loop
create_documents_skills_first(r) ==
    <<OverviewDoc(r)>>
    \o SkillsDocs(r.technical_skills.categories)
    \o ExperienceDocs(r.employment)
    \o ProjectDocs(r.projects)

\* create_documents without the append of lines 16-19
create_documents_no_overview(r) ==
    ExperienceDocs(r.employment)
    \o SkillsDocs(r.technical_skills.categories)
    \o ProjectDocs(r.projects)

\* resume['projects'] on a record without that key: KeyError
CreateDocumentsRaises(r) == "projects" \notin DOMAIN r

create_documents(r) ==
    <<OverviewDoc(r)>>
    \o ExperienceDocs(r.employment)
    \o SkillsDocs(r.technical_skills.categories)
    \o ProjectDocs(r.projects)

-----------------------------------------------------------------------------
(* load_resume *)

required_fields == <<"basics", "employment", "technical_skills">>

RECURSIVE LastMissing(_, _)
\* the loop of lines 82-84 walking required_fields from its end
LastMissing(fields, data) ==
    IF Len(fields) = 0 THEN ""
    ELSE IF fields[Len(fields)] \notin DOMAIN data THEN fields[Len(fields)]
    ELSE LastMissing(SubSeq(fields, 1, Len(fields) - 1), data)

RECURSIVE FirstMissing(_, _)
\* the field the loop of lines 82-84 raises on; "" when it ends normally
FirstMissing(fields, data) ==
    IF Len(fields) = 0 THEN ""
    ELSE IF Head(fields) \notin DOMAIN data THEN Head(fields)
    ELSE FirstMissing(Tail(fields), data)

-----------------------------------------------------------------------------
(* The records tried.  The i-th company, position, highlight, category and *)
(* project carry the i-th name, so every unit's text tells where in the   *)
(* record it comes from.                                                   *)

Name(prefix, i) == prefix \o ToString(i)

TechOptions == {Empty, "technologies" :> <<"AWS", "Java">>}

\* metrics keys: one of its own, two that the metadata also uses
MetricKeys == {"latency", "technologies", "company"}

MetricsOptions == {Empty} \cup {"metrics" :> (k :> 40) : k \in MetricKeys}

HighlightVariants == {t @@ m : t \in TechOptions, m \in MetricsOptions}

PlainHighlight == {"technologies" :> <<"AWS", "Java">>}

ProjectVariants ==
    {t @@ a @@ d :
        t \in TechOptions,
        a \in {Empty, "achievements" :>
                  <<[description |-> "Cut costs", impact |-> "30%"],
                    [description |-> "Zero downtime", impact |-> "high"]>>},
        d \in {Empty, "duration" :> "2021"}}

PlainProject == {("technologies" :> <<"AWS", "Java">>) @@ ("duration" :> "2021")}

HighlightSeqs(HV, n) ==
    {[i \in 1..n |-> ("achievement" :> Name("achievement", i)) @@ f[i]] :
        f \in [1..n -> HV]}

Positions(HV, j, n) ==
    {[title |-> Name("Engineer", j), highlights |-> hs] : hs \in HighlightSeqs(HV, n)}

RECURSIVE PositionSeqs(_, _, _)
\* the lists of k positions holding n highlights in all
PositionSeqs(HV, k, n) ==
    IF k = 0 THEN (IF n = 0 THEN {<<>>} ELSE {})
    ELSE UNION {{Append(ps, p) : ps \in PositionSeqs(HV, k - 1, n - m),
                                 p \in Positions(HV, k, m)} : m \in 0..n}

Companies(HV, LL, c, n) ==
    {[company |-> Name("Company", c), positions |-> ps] :
        ps \in UNION {PositionSeqs(HV, k, n) : k \in LL}}

RECURSIVE CompanySeqs(_, _, _, _)
CompanySeqs(HV, LL, k, n) ==
    IF k = 0 THEN (IF n = 0 THEN {<<>>} ELSE {})
    ELSE UNION {{Append(cs, c) : cs \in CompanySeqs(HV, LL, k - 1, n - m),
                                 c \in Companies(HV, LL, k, m)} : m \in 0..n}

Employments(HV, LL, n) == UNION {CompanySeqs(HV, LL, k, n) : k \in LL}

Category(i) ==
    [name |-> Name("Category", i), experience |-> "5 years", projects |-> 3,
     items |-> <<"Java", "Spring">>]

CategorySeq(n) == [i \in 1..n |-> Category(i)]

ProjectSeqs(PV, n) ==
    {[i \in 1..n |-> [name |-> Name("Project", i), role |-> "Lead"] @@ f[i]] :
        f \in [1..n -> PV]}

Basics ==
    [name |-> "Sajith", summary |-> "Backend engineer",
     contact |-> [location |-> "Chennai", email |-> "e", phone |-> "p", linkedin |-> "l"]]

Metrics == [total_experience |-> "8 years", projects_completed |-> 12]

Without(d, keys) == [k \in DOMAIN d \ keys |-> d[k]]

\* r is a record with at most `leaves` highlights, categories and projects in
\* all, holding every key the program reads but for some of `optional`
ValidRecord(r, HV, PV, LL, leaves, optional) ==
    \E nh \in 0..leaves : \E nc \in 0..(leaves - nh) : \E np \in 0..(leaves - nh - nc) :
    \E e \in Employments(HV, LL, nh) : \E ps \in ProjectSeqs(PV, np) :
    \E ks \in SUBSET optional :
        r = Without([basics |-> Basics, employment |-> e,
                     technical_skills |-> [categories |-> CategorySeq(nc)],
                     projects |-> ps, metrics |-> Metrics], ks)

SampleRecord ==
    [basics |-> Basics,
     employment |-> <<[company |-> "Acme", positions |->
                        <<[title |-> "Engineer", highlights |->
                            <<[achievement |-> "Led migration to AWS",
                               technologies |-> <<"AWS">>]>>]>>]>>,
     technical_skills |-> [categories |-> CategorySeq(1)],
     projects |-> <<>>, metrics |-> Metrics]

\* records without some of the required fields
MalformedRecords ==
    {Without(SampleRecord, ks) :
        ks \in (SUBSET {"basics", "employment", "technical_skills"}) \ {{}}}

-----------------------------------------------------------------------------
(* The embedding and the index *)

\* the vectors an embedding may take
Vectors == {<<0>>, <<1>>, <<2>>}

\* similarity_search(query, k=3)
K == 3

RECURSIVE L2(_, _)
\* squared Euclidean distance
L2(a, b) ==
    IF Len(a) = 0 THEN 0
    ELSE (Head(a) - Head(b)) * (Head(a) - Head(b)) + L2(Tail(a), Tail(b))

\* the embeddings of the texts of docs: one vector per text, equal texts
\* getting equal vectors
Embeddings(docs) ==
    {vs \in [1..Len(docs) -> Vectors] :
        \A i, j \in 1..Len(docs) :
            docs[i].page_content = docs[j].page_content => vs[i] = vs[j]}

\* FAISS.from_documents(documents, embeddings): the i-th vector is that of
\* the i-th document, which the store keeps under handle i
from_documents(docs, vs) == [index |-> vs, docstore |-> docs]

Closer(index, qv, i, j) ==
    \/ L2(index[i], qv) < L2(index[j], qv)
    \/ L2(index[i], qv) = L2(index[j], qv) /\ i < j

Rank(index, qv, i) ==
    1 + Cardinality({j \in 1..Len(index) : Closer(index, qv, j, i)})

\* the k nearest vectors of the index, nearest first
search(index, qv, k) ==
    [r \in 1..Min(k, Len(index)) |->
        LET h == CHOOSE i \in 1..Len(index) : Rank(index, qv, i) = r
        IN  [handle |-> h, distance |-> L2(index[h], qv)]]

\* the documents of the hits, in their order
Resolve(store, found) == [r \in 1..Len(found) |-> store.docstore[found[r].handle]]

\* similarity_search with k = 2
similarity_search_k2(store, qv) == search(store.index, qv, 2)

\* vector_store.similarity_search(query, k=3), given the query's embedding
similarity_search(store, qv) == search(store.index, qv, K)

-----------------------------------------------------------------------------
(* main *)

Queries == {"", "What AWS experience do you have?"}

NoStore == [index |-> <<>>, docstore |-> <<>>]

\* a record without some of the required fields
MalformedRecord(r) == r \in MalformedRecords

InitRest ==
    /\ resume_data = Empty
    /\ pc = "start"
    /\ error = <<>>
    /\ documents = <<>>
    /\ vector_store = NoStore
    /\ query = ""
    /\ query_vector = <<>>
    /\ hits = <<>>
    /\ results = <<>>
    /\ primary_result = Empty

\* line 100: load_resume(); st.stop() ends the run
LoadResume ==
    /\ pc = "start"
    /\ IF ~readable
       THEN /\ error' = <<"Error loading resume:", "cannot read resum.json">>
            /\ pc' = "stopped"
            /\ UNCHANGED resume_data
       ELSE IF FirstMissing(required_fields, resum_json) # ""
       THEN /\ error' = <<"Error loading resume:", "Missing required field:",
                          FirstMissing(required_fields, resum_json)>>
            /\ pc' = "stopped"
            /\ UNCHANGED resume_data
       ELSE /\ resume_data' = resum_json
            /\ pc' = "loaded"
            /\ UNCHANGED error
    /\ UNCHANGED <<readable, resum_json, documents, vector_store, query,
                   query_vector, hits, results, primary_result>>

\* line 101
CreateDocuments ==
    /\ pc = "loaded"
    /\ IF CreateDocumentsRaises(resume_data)
       THEN /\ error' = <<"KeyError:", "projects">>
            /\ pc' = "crashed"
            /\ UNCHANGED documents
       ELSE /\ documents' = create_documents(resume_data)
            /\ pc' = "documents"
            /\ UNCHANGED error
    /\ UNCHANGED <<readable, resum_json, resume_data, vector_store, query,
                   query_vector, hits, results, primary_result>>

\* line 102 building the index from documents[1:]
FromDocumentsTail ==
    /\ pc = "documents"
    /\ \E vs \in Embeddings(Tail(documents)) :
           vector_store' = from_documents(Tail(documents), vs)
    /\ pc' = "indexed"
    /\ UNCHANGED <<readable, resum_json, resume_data, error, documents, query,
                   query_vector, hits, results, primary_result>>

\* line 102
FromDocuments ==
    /\ pc = "documents"
    /\ \E vs \in Embeddings(documents) :
           vector_store' = from_documents(documents, vs)
    /\ pc' = "indexed"
    /\ UNCHANGED <<readable, resum_json, resume_data, error, documents, query,
                   query_vector, hits, results, primary_result>>

\* lines 105-118: the sidebar reads profile.jpg and resume.pdf, and
\* display_quick_facts reads resume['metrics']
Sidebar ==
    /\ pc = "indexed"
    /\ \E assets \in BOOLEAN :
        IF ~assets
        THEN error' = <<"FileNotFoundError:", "profile.jpg or resume.pdf">> /\ pc' = "crashed"
        ELSE IF "metrics" \notin DOMAIN resume_data
        THEN error' = <<"KeyError:", "metrics">> /\ pc' = "crashed"
        ELSE pc' = "ui" /\ UNCHANGED error
    /\ UNCHANGED <<readable, resum_json, resume_data, documents, vector_store,
                   query, query_vector, hits, results, primary_result>>

\* lines 125-129: the text input; an empty query ends the run
TextInput ==
    /\ pc = "ui"
    /\ \E q \in Queries :
        /\ query' = q
        /\ pc' = IF q = "" THEN "done" ELSE "asked"
    /\ UNCHANGED <<readable, resum_json, resume_data, error, documents,
                   vector_store, query_vector, hits, results, primary_result>>

\* line 130 building the index anew for the query
SimilaritySearchRebuilding ==
    /\ pc = "asked"
    /\ \E vs \in Embeddings(documents) : \E qv \in Vectors :
        /\ vector_store' = from_documents(documents, vs)
        /\ query_vector' = qv
        /\ hits' = similarity_search(vector_store', qv)
        /\ results' = Resolve(vector_store', similarity_search(vector_store', qv))
    /\ pc' = "searched"
    /\ UNCHANGED <<readable, resum_json, resume_data, error, documents,
                   query, primary_result>>

\* line 130
SimilaritySearch ==
    /\ pc = "asked"
    /\ \E qv \in Vectors :
        /\ query_vector' = qv
        /\ hits' = similarity_search(vector_store, qv)
        /\ results' = Resolve(vector_store, similarity_search(vector_store, qv))
    /\ pc' = "searched"
    /\ UNCHANGED <<readable, resum_json, resume_data, error, documents,
                   vector_store, query, primary_result>>

\* ', '.join(...) of line 144 on a value that is no list: TypeError
JoinRaises(doc) ==
    /\ "technologies" \in DOMAIN doc.metadata
    /\ doc.metadata.technologies.kind # "list"

\* line 131, display_results
DisplayResults ==
    /\ pc = "searched"
    /\ IF Len(results) = 0
       THEN /\ error' = <<"IndexError:", "list index out of range">>
            /\ pc' = "crashed"
            /\ UNCHANGED primary_result
       ELSE /\ primary_result' = results[1]
            /\ IF JoinRaises(results[1])
               THEN error' = <<"TypeError:", "can only join an iterable">> /\ pc' = "crashed"
               ELSE pc' = "done" /\ UNCHANGED error
    /\ UNCHANGED <<readable, resum_json, resume_data, documents, vector_store,
                   query, query_vector, hits, results>>

\* a highlight whose metrics hold the key technologies
ClashHighlight == {"metrics" :> ("technologies" :> 40)}

\* the records a whole run is followed on
RunRecord(r) ==
    \/ ValidRecord(r, PlainHighlight \cup ClashHighlight, PlainProject, ShortLens,
                   MaxIndexed, {"projects", "metrics"})
    \/ MalformedRecord(r)

\* the records whose flattening is followed
NormRecord(r) ==
    \/ ValidRecord(r, HighlightVariants, ProjectVariants, ListLens, MaxLeaves,
                   {"projects"})
    \/ MalformedRecord(r)

Init ==
    /\ \/ readable = TRUE /\ RunRecord(resum_json)
       \/ readable = FALSE /\ resum_json = SampleRecord
    /\ InitRest

Next ==
    \/ LoadResume
    \/ CreateDocuments
    \/ FromDocuments
    \/ Sidebar
    \/ TextInput
    \/ SimilaritySearch
    \/ DisplayResults

Spec == Init /\ [][Next]_vars

\* load_resume and create_documents alone, on the wider set of records
NormInit ==
    /\ \/ readable = TRUE /\ NormRecord(resum_json)
       \/ readable = FALSE /\ resum_json = SampleRecord
    /\ InitRest

NormNext == LoadResume \/ CreateDocuments

NormSpec == NormInit /\ [][NormNext]_vars

-----------------------------------------------------------------------------
(* What the claims speak of *)

RECURSIVE Sum(_)
Sum(ns) == IF Len(ns) = 0 THEN 0 ELSE Head(ns) + Sum(Tail(ns))

HighlightsOfCompany(company) ==
    Sum([p \in 1..Len(company.positions) |-> Len(company.positions[p].highlights)])

HighlightCount(employment) ==
    Sum([c \in 1..Len(employment) |-> HighlightsOfCompany(employment[c])])

HasRequired(r) ==
    /\ "basics" \in DOMAIN r
    /\ "employment" \in DOMAIN r
    /\ "technical_skills" \in DOMAIN r

\* resum.json was read and holds the three required fields
Validated == readable /\ HasRequired(resum_json)

\* create_documents has been called and has returned or raised
Flattened == pc \notin {"start", "stopped", "loaded"}

\* the (company, position, highlight) index triples of the record
Triples(employment) ==
    UNION {UNION {{<<c, p, h>> : h \in 1..Len(employment[c].positions[p].highlights)} :
                  p \in 1..Len(employment[c].positions)} :
           c \in 1..Len(employment)}

\* the position in the unit list of the unit of highlight <<c, p, h>>: after
\* the overview and the highlights that come before it in the nested order
UnitOf(employment, c, p, h) ==
    1 + Sum([i \in 1..(c - 1) |-> HighlightsOfCompany(employment[i])])
      + Sum([j \in 1..(p - 1) |-> Len(employment[c].positions[j].highlights)])
      + h

\* C1: every record with the three required fields is flattened without an
\* exception into 1 + highlights + skill categories + projects units
C1_UnitCount ==
    (Validated /\ Flattened) =>
        /\ pc # "crashed"
        /\ Len(documents) =
              1 + HighlightCount(resum_json.employment)
                + Len(resum_json.technical_skills.categories)
                + Len(Get(resum_json, "projects", <<>>))

\* C1, on the records that also hold the key projects
C1_UnitCountWithProjects ==
    (Validated /\ Flattened /\ "projects" \in DOMAIN resum_json) =>
        /\ error # <<"KeyError:", "projects">>
        /\ Len(documents) =
              1 + HighlightCount(resum_json.employment)
                + Len(resum_json.technical_skills.categories)
                + Len(resum_json.projects)

\* the first of basics, employment, technical_skills that r lacks
FirstAbsent(r) ==
    IF "basics" \notin DOMAIN r THEN "basics"
    ELSE IF "employment" \notin DOMAIN r THEN "employment"
    ELSE "technical_skills"

\* C2: a record without a required field makes load_resume report the first
\* missing field and stop the run; no unit list and no index exist in that run
C2_MissingFieldStops ==
    (readable /\ ~HasRequired(resum_json) /\ pc # "start") =>
        /\ pc = "stopped"
        /\ error = <<"Error loading resume:", "Missing required field:",
                     FirstAbsent(resum_json)>>
        /\ documents = <<>>
        /\ vector_store = NoStore
        /\ results = <<>>

C2_Witness ==
    /\ pc = "stopped"
    /\ readable
    /\ DOMAIN resum_json = {"basics", "projects", "metrics"}

Built == vector_store # NoStore

\* C3: a search is only run once the record is loaded, the units are made and
\* the index is built from them; once built, units and index stay as they are
C3_BuildBeforeQuery ==
    [][/\ (pc # "searched" /\ pc' = "searched") =>
             /\ DOMAIN resume_data # {}
             /\ Len(documents) > 0
             /\ Built
             /\ vector_store.docstore = documents
       /\ Built => (Built' /\ vector_store' = vector_store /\ documents' = documents)
       /\ Len(documents) > 0 => documents' = documents]_vars

C3_Witness == pc = "searched" /\ Len(results) > 1

\* C4: whenever a query can be served, the index has one vector per unit,
\* handle i is unit i of the list made from the loaded record, and every
\* result is the unit at its handle
C4_IndexAligned ==
    Built =>
        /\ Len(vector_store.index) = Len(documents)
        /\ \A i \in 1..Len(documents) : vector_store.docstore[i] = documents[i]
        /\ resume_data = resum_json
        /\ documents = create_documents(resum_json)
        /\ Len(results) = Len(hits)
        /\ \A r \in 1..Len(results) :
              /\ hits[r].handle \in 1..Len(documents)
              /\ results[r] = documents[hits[r].handle]

C4_Witness == pc = "searched" /\ Len(documents) > K /\ hits[1].handle > 1

\* s holds n entries of the index, nearest first, ties by ascending handle
RankedHits(s, index, qv, n) ==
    /\ Len(s) = n
    /\ \A r \in 1..Len(s) :
          /\ s[r].handle \in 1..Len(index)
          /\ s[r].distance = L2(index[s[r].handle], qv)
    /\ \A r \in 1..(Len(s) - 1) :
          \/ s[r].distance < s[r + 1].distance
          \/ s[r].distance = s[r + 1].distance /\ s[r].handle < s[r + 1].handle
    /\ \A i \in 1..Len(index) :
          (\A r \in 1..Len(s) : s[r].handle # i) =>
              L2(index[i], qv) >= s[Len(s)].distance

\* C5: for every k >= 1 a search of the built index of N units yields
\* min(k, N) entries by non-decreasing distance, ties by ascending handle;
\* the query, with k = 3, yields min(3, N) units
C5_SearchRanked ==
    /\ pc = "indexed" =>
          \A k \in 1..(Len(vector_store.index) + 1) : \A qv \in Vectors :
              RankedHits(search(vector_store.index, qv, k), vector_store.index, qv,
                         Min(k, Len(vector_store.index)))
    /\ pc = "searched" =>
          /\ RankedHits(hits, vector_store.index, query_vector,
                        Min(3, Len(vector_store.index)))
          /\ Len(results) = Min(3, Len(documents))

C5_Witness ==
    /\ pc = "searched"
    /\ Len(vector_store.index) > 3
    /\ hits[1].distance = hits[2].distance
    /\ hits[2].distance < hits[3].distance
    /\ L2(vector_store.index[1], query_vector) > hits[3].distance

NoLeaves(r) ==
    /\ Len(r.employment) = 0
    /\ Len(r.technical_skills.categories) = 0
    /\ Len(r.projects) = 0

\* C6: on a record without employment entries, skill categories and projects
\* every query yields the overview unit alone
C6_OnlyOverview ==
    (pc = "searched" /\ NoLeaves(resume_data)) =>
        /\ Len(results) = 1
        /\ results[1].metadata.type = Str("overview")
        /\ results[1].page_content =
              <<"Name:", resum_json.basics.name, "Summary:", resum_json.basics.summary>>

C6_Witness == pc = "searched" /\ NoLeaves(resume_data) /\ query # ""

\* C7: the units are the overview, then the experience units in the nested
\* company/position/highlight order, then the skills units in category order,
\* then the project units in project order
C7_UnitOrder ==
    pc = "documents" =>
        LET e  == resum_json.employment
            cs == resum_json.technical_skills.categories
            ps == resum_json.projects
            nh == HighlightCount(e)
        IN  /\ documents[1].page_content[1] = "Name:"
            /\ \A t \in Triples(e) :
                  LET d == documents[UnitOf(e, t[1], t[2], t[3])].page_content
                  IN  /\ d[1] = e[t[1]].positions[t[2]].title
                      /\ d[2] = "at"
                      /\ d[3] = e[t[1]].company
                      /\ d[6] = e[t[1]].positions[t[2]].highlights[t[3]].achievement
            /\ \A i \in 1..Len(cs) :
                  /\ documents[1 + nh + i].page_content[1] = cs[i].name
                  /\ documents[1 + nh + i].page_content[2] = "("
            /\ \A i \in 1..Len(ps) :
                  /\ documents[1 + nh + Len(cs) + i].page_content[1] = "Project:"
                  /\ documents[1 + nh + Len(cs) + i].page_content[2] = ps[i].name
            /\ Len(documents) = 1 + nh + Len(cs) + Len(ps)

C7_Witness ==
    /\ pc = "documents"
    /\ Len(resum_json.employment) = 2
    /\ HighlightsOfCompany(resum_json.employment[1]) = 1
    /\ HighlightsOfCompany(resum_json.employment[2]) = 1

C7_WitnessGroups ==
    /\ pc = "documents"
    /\ Len(resum_json.technical_skills.categories) = 1
    /\ Len(resum_json.projects) = 1

\* C8: a highlight without technologies or metrics, or a project without
\* technologies, achievements or duration, raises nothing and yields its one
\* unit, whose technologies metadata is the empty list (duration "Unknown")
C8_OptionalFields ==
    (Validated /\ Flattened /\ "projects" \in DOMAIN resum_json) =>
        LET e  == resum_json.employment
            cs == resum_json.technical_skills.categories
            ps == resum_json.projects
            nh == HighlightCount(e)
        IN  /\ pc # "crashed"
            /\ Len(documents) = 1 + nh + Len(cs) + Len(ps)
            /\ \A t \in Triples(e) :
                  "technologies" \notin DOMAIN e[t[1]].positions[t[2]].highlights[t[3]] =>
                      documents[UnitOf(e, t[1], t[2], t[3])].metadata.technologies = Lst(<<>>)
            /\ \A i \in 1..Len(ps) :
                  /\ "technologies" \notin DOMAIN ps[i] =>
                        documents[1 + nh + Len(cs) + i].metadata.technologies = Lst(<<>>)
                  /\ "duration" \notin DOMAIN ps[i] =>
                        documents[1 + nh + Len(cs) + i].metadata.duration = Str("Unknown")

\* C9: the unit of a highlight carries type = experience, the company's name,
\* the position's title and the highlight's technologies, whatever the keys of
\* its metrics
C9_ExperienceMetadata ==
    pc = "documents" =>
        LET e == resum_json.employment
        IN  \A t \in Triples(e) :
                LET md == documents[UnitOf(e, t[1], t[2], t[3])].metadata
                    hl == e[t[1]].positions[t[2]].highlights[t[3]]
                IN  /\ md.type = Str("experience")
                    /\ md.company = Str(e[t[1]].company)
                    /\ md.role = Str(e[t[1]].positions[t[2]].title)
                    /\ md.technologies = Lst(Get(hl, "technologies", <<>>))

\* C10: display_results always gets at least one result: the unit list
\* starts with the overview, so the index is never empty
C10_ResultsNonEmpty ==
    /\ pc = "searched" => Len(results) >= 1
    /\ error # <<"IndexError:", "list index out of range">>
    /\ Built =>
          /\ Len(vector_store.index) >= 1
          /\ documents[1].metadata.type = Str("overview")

C10_Witness == pc = "done" /\ DOMAIN primary_result # {} /\ Len(results) = 1

=============================================================================
